---- MODULE Spec2Model ----
(***************************************************************************)
(* Model of the WordPress GitHub release API worker.                       *)
(*                                                                         *)
(* src/index.js lines 1-369 hold the version-aware, path-based handler     *)
(* (handleRequest, getDataFromRequest, getPayload, getLatestRelease,       *)
(* getRelease, getResponse, getErrorResponse, getFileHeaders and the fetch *)
(* listener).  src/unnamed/part_001 holds the query-based revision of      *)
(* getDataFromRequest.                                                     *)
(*                                                                         *)
(* JavaScript values are modelled as follows.  Strings are TLA+ strings;   *)
(* `undefined` and `null` are two reserved strings no input contains.  A   *)
(* JSON value is a tagged record: an object carries a function from its    *)
(* (flattened) keys to strings, a JSON string carries its text.  A URL is  *)
(* a record of its path segments and its query parameters.                 *)
(***************************************************************************)
EXTENDS Integers, Sequences, FiniteSets, TLC

VARIABLES
    cache,      \* caches.default: cache key (request URL) -> stored response
    pending,    \* cache.put calls handed to event.waitUntil, not yet completed
    pc,         \* position of handleRequest: idle, match, list, tag, file, done
    request,    \* URL of the request being handled
    data,       \* the descriptor built by getDataFromRequest, plus releases
    calls,      \* outbound calls issued for the current request, in order
    response,   \* the response handed to event.respondWith
    fromCache,  \* the response came from cache.match
    wrote,      \* the current request called cache.put
    started,    \* number of requests received so far
    served,     \* history: computed 200 JSON responses returned to callers
    last,       \* history: per URL, the body last computed and returned for
                \* it, until the cache lifetime of that URL is over
    parsed      \* result of the parser under the parser-only specifications

vars == <<cache, pending, pc, request, data, calls, response, fromCache,
          wrote, started, served, last, parsed>>

----------------------------------------------------------------------------
(* Bounds *)

MaxRequests == 1
MaxRepeats == 3
MaxReleases == 2
MaxTail == 2
MaxParseTail == 3
MaxBasename == 7
MaxLineTokens == 5

----------------------------------------------------------------------------
(* JavaScript values *)

undefined == "<undefined>"
null == "<null>"

Truthy(v) == v \notin {undefined, null, ""}

\* Template-literal conversion `${ v }`
TemplateStr(v) ==
    IF v = undefined THEN "undefined" ELSE IF v = null THEN "null" ELSE v

Obj(f) == [kind |-> "object", fields |-> f]
Str(s) == [kind |-> "string", text |-> s]

\* obj[key] on an object that may lack the key
Prop(f, k) == IF k \in DOMAIN f THEN f[k] ELSE undefined

\* JSON.stringify drops the properties whose value is undefined
JSONstringify(v) ==
    IF v.kind = "object"
    THEN Obj([k \in {j \in DOMAIN v.fields : v.fields[j] # undefined} |-> v.fields[k]])
    ELSE v

\* e.message for a thrown value e: a thrown string has no message property
Message(e) ==
    IF e.kind = "object" THEN Prop(e.fields, "message") ELSE undefined

\* url.searchParams.get(name)
SearchGet(url, name) ==
    IF name \in DOMAIN url.query THEN url.query[name] ELSE null

RECURSIVE Filter(_)
\* .filter((value) => !!value) over the split path
Filter(s) ==
    IF s = <<>> THEN <<>>
    ELSE IF Truthy(Head(s)) THEN <<Head(s)>> \o Filter(Tail(s))
    ELSE Filter(Tail(s))

At(s, i) == IF i \in 1..Len(s) THEN s[i] ELSE undefined

----------------------------------------------------------------------------
(* Responses *)

getStatusText(code) ==
    IF code = 400 THEN "Bad Request"
    ELSE IF code = 404 THEN "Not Found"
    ELSE "OK"

NoBody == [kind |-> "none"]

getResponse(payload, status) ==
    [status |-> status,
     statusText |-> getStatusText(status),
     contentType |-> "application/json",
     cacheControl |-> undefined,
     location |-> undefined,
     body |-> JSONstringify(payload)]

getErrorResponse(message, statusCode) ==
    getResponse(Obj([status |-> "error", message |-> message]), statusCode)

\* Response.redirect(url, 301)
Redirect(url, status) ==
    [status |-> status,
     statusText |-> "",
     contentType |-> undefined,
     cacheControl |-> undefined,
     location |-> url,
     body |-> NoBody]

\* Mutant of ErrorStackResponse: the listener has no catch, nothing is answered
ErrorStackResponse_NoCatch(stack) ==
    [status |-> 0,
     statusText |-> "",
     contentType |-> undefined,
     cacheControl |-> undefined,
     location |-> undefined,
     body |-> [kind |-> "none"]]

\* new Response(err.stack, {status: 500}) of the fetch listener
ErrorStackResponse(stack) ==
    [status |-> 500,
     statusText |-> "",
     contentType |-> "text/plain",
     cacheControl |-> undefined,
     location |-> undefined,
     body |-> [kind |-> "text", text |-> stack]]

NoResponse ==
    [status |-> 0,
     statusText |-> "",
     contentType |-> undefined,
     cacheControl |-> undefined,
     location |-> undefined,
     body |-> NoBody]

----------------------------------------------------------------------------
(* Request parser of the version-aware handler: src/index.js 87-139 *)

\* Mutant of DefaultFile: the two defaults exchanged
DefaultFile_Swapped(type, package) ==
    IF type = "theme" THEN TemplateStr(package) \o ".php" ELSE "style.css"

\* Line 122: the file read when no `file` parameter overrides it
DefaultFile(type, package) ==
    IF type = "theme" THEN "style.css" ELSE TemplateStr(package) \o ".php"

getDataFromRequest(url) ==
    LET segments == Filter(url.path)
        type0 == At(segments, 1)
        type == IF type0 \in {"plugin", "plugins"} THEN "plugin"
                ELSE IF type0 \in {"theme", "themes"} THEN "theme"
                ELSE type0
        vendor == At(segments, 2)
        package == At(segments, 3)
        rest == SubSeq(segments, 4, Len(segments))
        isDownload == \E i \in 1..Len(rest) : rest[i] = "download"
        \* segments.pop() removes the LAST remaining segment
        rest2 == IF isDownload THEN SubSeq(rest, 1, Len(rest) - 1) ELSE rest
        version == At(rest2, 1)
        slug == IF Truthy(SearchGet(url, "slug")) THEN SearchGet(url, "slug")
                ELSE package
        file == IF Truthy(SearchGet(url, "file")) THEN SearchGet(url, "file")
                ELSE DefaultFile(type, package)
        basename == TemplateStr(slug) \o "/" \o TemplateStr(file)
    IN  [basename |-> basename,
         file |-> file,
         isDownload |-> isDownload,
         package |-> package,
         slug |-> slug,
         type |-> type,
         vendor |-> vendor,
         version |-> version]

----------------------------------------------------------------------------
(* Releases as returned by the remote API *)

Tags == {"v1", "v2"}

Asset(u) == [browser_download_url |-> u]

NoAssets == <<>>

TwoAssets(t) == <<Asset("https://dl/" \o t \o ".zip"), Asset("https://dl/" \o t \o ".tar")>>

PublishedAt(t) == IF t = "v1" THEN "2020-05-11T22:23:45Z" ELSE undefined

Releases ==
    UNION {{[tag_name |-> t, published_at |-> PublishedAt(t), assets |-> a] :
                a \in {NoAssets, TwoAssets(t)}} : t \in Tags}

NoRelease == [tag_name |-> undefined, published_at |-> undefined, assets |-> NoAssets]

ReleaseLists ==
    UNION {[1..n -> Releases] : n \in 0..MaxReleases}

\* Answers of GET /repos/{vendor}/{package}/releases
ListResponses ==
    {[status |-> 200, json |-> [kind |-> "array", items |-> l]] : l \in ReleaseLists}
    \cup {[status |-> 200, json |-> Obj([message |-> "Moved"])]}
    \cup {[status |-> 404, json |-> Obj([message |-> "Not Found"])],
          [status |-> 403, json |-> Obj([message |-> "API rate limit exceeded"])]}

\* Answers of GET /repos/{vendor}/{package}/releases/tags/{version}
TagResponses(version) ==
    {[status |-> 200, json |-> r] : r \in {x \in Releases : x.tag_name = version}}
    \cup {[status |-> 404, json |-> Obj([message |-> "Not Found"])],
          [status |-> 403, json |-> Obj([message |-> "API rate limit exceeded"])]}

Returned(r) == [ok |-> TRUE, value |-> r]
Thrown(e) == [ok |-> FALSE, value |-> e]

\* Index of the element the for-of loop stops at: the first release with an
\* asset, or the last release when the loop runs to its end without a break.
LoopStop(items) ==
    IF \E i \in 1..Len(items) : Len(items[i].assets) # 0
    THEN CHOOSE i \in 1..Len(items) :
            /\ Len(items[i].assets) # 0
            /\ \A j \in 1..(i - 1) : Len(items[j].assets) = 0
    ELSE Len(items)

\* getLatestRelease from the point where the release list has arrived
getLatestRelease(resp) ==
    IF resp.status # 200 THEN Thrown(resp.json)
    ELSE IF resp.json.kind # "array" \/ Len(resp.json.items) = 0
    THEN Thrown(Str("No releases available!"))
    ELSE Returned(resp.json.items[LoopStop(resp.json.items)])

\* Mutant of getRelease: the check for a release asset is missing
getRelease_NoAssetCheck(d, resp) ==
    IF resp.status # 200 THEN Thrown(resp.json) ELSE Returned(resp.json)

\* getRelease from the point where the release has arrived
getRelease(d, resp) ==
    IF resp.status # 200 THEN Thrown(resp.json)
    ELSE IF Len(resp.json.assets) = 0
    THEN Thrown(Str("Release " \o d.version \o " doesn't have a release asset!"))
    ELSE Returned(resp.json)

----------------------------------------------------------------------------
(* File headers: src/index.js 327-358 *)

HeaderNames ==
    {"Author", "Author URI", "Description", "Domain Path", "License",
     "License URI", "Plugin Name", "Plugin URI", "Requires at least",
     "Requires PHP", "Tested up to", "Text Domain", "Theme Name",
     "Theme URI", "Version"}

\* A text is a sequence of lines, a line a sequence of tokens.  A token is a
\* header name, the colon, a blank, or a word without a colon.
IsBlank(t) == t \in {" ", "\t"}

RECURSIVE Join(_)
Join(toks) == IF toks = <<>> THEN "" ELSE Head(toks) \o Join(Tail(toks))

RECURSIVE TrimLeft(_)
TrimLeft(toks) ==
    IF toks # <<>> /\ IsBlank(Head(toks)) THEN TrimLeft(Tail(toks)) ELSE toks

RECURSIVE TrimRight(_)
TrimRight(toks) ==
    IF toks # <<>> /\ IsBlank(toks[Len(toks)])
    THEN TrimRight(SubSeq(toks, 1, Len(toks) - 1)) ELSE toks

\* String.prototype.trim
Trim(toks) == TrimRight(TrimLeft(toks))

MaxLineLen(text) ==
    IF text = <<>> THEN 0
    ELSE CHOOSE n \in {Len(text[l]) : l \in 1..Len(text)} :
            \A l \in 1..Len(text) : Len(text[l]) <= n

\* Positions <<line, column>> where `header + ':'` occurs in the text
HeaderMatches(text, header) ==
    {<<l, i>> \in (1..Len(text)) \X (1..MaxLineLen(text)) :
        /\ i + 1 <= Len(text[l])
        /\ text[l][i] = header
        /\ text[l][i + 1] = ":"}

\* regex.exec: the leftmost match of the first line that has one
FirstMatch(text, header) ==
    CHOOSE m \in HeaderMatches(text, header) :
        \A n \in HeaderMatches(text, header) :
            m[1] < n[1] \/ (m[1] = n[1] /\ m[2] <= n[2])

getFileHeaders(fileContents) ==
    LET found == {h \in HeaderNames : HeaderMatches(fileContents, h) # {}}
    IN  [h \in found |->
            LET m == FirstMatch(fileContents, h)
                line == fileContents[m[1]]
            IN  Join(Trim(SubSeq(line, m[2] + 2, Len(line))))]

----------------------------------------------------------------------------
(* Payload: src/index.js 147-179 *)

OrEmpty(v) == IF Truthy(v) THEN v ELSE ""

\* Mutant of DownloadURL: the last asset instead of the first
DownloadURL_LastAsset(release) ==
    release.assets[Len(release.assets)].browser_download_url

\* Line 170: data.release.assets[0].browser_download_url
DownloadURL(release) == release.assets[1].browser_download_url

\* Mutant of WithBasename: the basename is added whatever the type
WithBasename_Always(d, payload) ==
    [k \in DOMAIN payload \cup {"basename"} |->
        IF k = "basename" THEN d.basename ELSE payload[k]]

\* Lines 174-176: if (data.type === 'plugin') payload.basename = data.basename
WithBasename(d, payload) ==
    IF d.type = "plugin"
    THEN [k \in DOMAIN payload \cup {"basename"} |->
            IF k = "basename" THEN d.basename ELSE payload[k]]
    ELSE payload

\* data.release.assets[0].browser_download_url throws a TypeError when the
\* asset list is empty (assets[0] is undefined).
getPayload(d) ==
    IF Len(d.release.assets) = 0
    THEN Thrown("TypeError: Cannot read properties of undefined (reading 'browser_download_url')")
    ELSE LET h == d.fileHeaders
             base ==
                [name |-> IF d.type = "theme" THEN Prop(h, "Theme Name")
                          ELSE Prop(h, "Plugin Name"),
                 type |-> d.type,
                 version_current |-> Prop(h, "Version"),
                 version_latest |-> d.latestRelease.tag_name,
                 description |-> OrEmpty(Prop(h, "Description")),
                 author_name |-> OrEmpty(Prop(h, "Author")),
                 author_url |-> OrEmpty(Prop(h, "Author URI")),
                 updated |-> OrEmpty(d.release.published_at),
                 requires_wp |-> OrEmpty(Prop(h, "Requires at least")),
                 requires_php |-> OrEmpty(Prop(h, "Requires PHP")),
                 tested_wp |-> OrEmpty(Prop(h, "Tested up to")),
                 url |-> OrEmpty(IF d.type = "theme" THEN Prop(h, "Theme URI")
                                 ELSE Prop(h, "Plugin URI")),
                 download |-> DownloadURL(d.release),
                 slug |-> d.slug]
         IN  Returned(Obj(WithBasename(d, base)))

----------------------------------------------------------------------------
(* Inputs of the handler *)

EntitySegs == {"plugin", "plugins", "theme", "themes", "widgets"}

TailSegs == {"v2", "download"}

Tails(n) == UNION {[1..k -> TailSegs] : k \in 0..n}

EmptyQuery == <<>>

URL(path, query) == [path |-> path, query |-> query]

\* Paths /{entity}/{vendor}/{package}[/...], and their proper prefixes
Paths(n) ==
    {<<>>}
    \cup {<<e>> : e \in EntitySegs}
    \cup {<<e, "acme">> : e \in EntitySegs}
    \cup {<<e, "acme", "widget">> \o t : e \in EntitySegs, t \in Tails(n)}

URLs == {URL(p, EmptyQuery) : p \in Paths(MaxTail)}

NoURL == URL(<<>>, EmptyQuery)

\* A file that carries the headers of a plugin and of a theme
HeaderFile ==
    << <<"/*">>,
       <<"Plugin Name", ":", " ", "Widget">>,
       <<"Theme Name", ":", " ", "Widget Theme">>,
       <<"Version", ":", " ", "1.2.3", " ", " ">>,
       <<"Author", ":", " ", "Acme">>,
       <<"Theme URI", ":", " ", "https://acme.test">> >>

\* A file without any header
BareFile == << <<"<?php">> >>

FileTexts == {HeaderFile, BareFile}

\* Answers of GET {raw}/{vendor}/{package}/{tag}/{file}
FileResponses ==
    {[status |-> 200, text |-> t] : t \in FileTexts}
    \cup {[status |-> 404, text |-> << <<"404", ":", " ", "Not Found">> >>]}

ListURL(d) ==
    "https://api.github.com/repos/" \o TemplateStr(d.vendor) \o "/"
        \o TemplateStr(d.package) \o "/releases"

TagURL(d) ==
    "https://api.github.com/repos/" \o TemplateStr(d.vendor) \o "/"
        \o TemplateStr(d.package) \o "/releases/tags/" \o TemplateStr(d.version)

\* Mutant of FilePath: the tag of the latest release, not of the resolved one
FilePath_LatestTag(d) ==
    "https://raw.githubusercontent.com/" \o TemplateStr(d.vendor) \o "/"
        \o TemplateStr(d.package) \o "/" \o TemplateStr(d.latestRelease.tag_name)
        \o "/" \o TemplateStr(d.file)

FilePath(d) ==
    "https://raw.githubusercontent.com/" \o TemplateStr(d.vendor) \o "/"
        \o TemplateStr(d.package) \o "/" \o TemplateStr(d.release.tag_name)
        \o "/" \o TemplateStr(d.file)

Call(endpoint, url) == [endpoint |-> endpoint, url |-> url]

\* The descriptor together with the fields handleRequest adds to it
Data(d, latest, rel, headers) ==
    [basename |-> d.basename, file |-> d.file, isDownload |-> d.isDownload,
     package |-> d.package, slug |-> d.slug, type |-> d.type,
     vendor |-> d.vendor, version |-> d.version,
     latestRelease |-> latest, release |-> rel, fileHeaders |-> headers]

NoData == Data(getDataFromRequest(NoURL), NoRelease, NoRelease, <<>>)

NoParsed == [done |-> FALSE]

----------------------------------------------------------------------------
(* handleRequest: src/index.js 8-79, and the fetch listener 360-369 *)

Init ==
    /\ cache = <<>>
    /\ pending = {}
    /\ pc = "idle"
    /\ request = NoURL
    /\ data = NoData
    /\ calls = <<>>
    /\ response = NoResponse
    /\ fromCache = FALSE
    /\ wrote = FALSE
    /\ started = 0
    /\ served = {}
    /\ last = <<>>
    /\ parsed = NoParsed

\* Mutant of CacheKey: the key keeps only /{entity}/{vendor}/{package}
CacheKey_NoTail(u) ==
    [u EXCEPT !.path = SubSeq(u.path, 1, IF Len(u.path) < 3 THEN Len(u.path) ELSE 3)]

\* Line 14: the cache key is the request with its full URL
CacheKey(u) == u

\* A fetch event arrives; handleRequest awaits cache.match(cacheKey)
Receive(u, limit) ==
    /\ pc = "idle"
    /\ started < limit
    /\ pc' = "match"
    /\ request' = u
    /\ data' = NoData
    /\ calls' = <<>>
    /\ response' = NoResponse
    /\ fromCache' = FALSE
    /\ wrote' = FALSE
    /\ started' = started + 1
    /\ UNCHANGED <<cache, pending, served, last, parsed>>

TypeMessage ==
    "The first URL path segment is missing a valid entity type. Must be either 'plugins' or 'themes'."

VendorMessage ==
    "The second URL path segment is missing. It should contain the vendor name."

PackageMessage ==
    "The third URL path segment is missing. It should contain the package name."

\* Mutant of ValidationError: the package is checked before the vendor
ValidationError_PackageFirst(d) ==
    IF d.type # "theme" /\ d.type # "plugin" THEN TypeMessage
    ELSE IF ~Truthy(d.package) THEN PackageMessage
    ELSE IF ~Truthy(d.vendor) THEN VendorMessage
    ELSE undefined

\* The message of the first failing check of lines 29-39, or undefined
ValidationError(d) ==
    IF d.type # "theme" /\ d.type # "plugin" THEN TypeMessage
    ELSE IF ~Truthy(d.vendor) THEN VendorMessage
    ELSE IF ~Truthy(d.package) THEN PackageMessage
    ELSE undefined

\* cache.match answers: a hit is returned as is; on a miss the request is
\* parsed, validated, and the release list is requested
CacheMatch ==
    /\ pc = "match"
    /\ IF CacheKey(request) \in DOMAIN cache
       THEN /\ response' = cache[CacheKey(request)]
            /\ fromCache' = TRUE
            /\ pc' = "done"
            /\ UNCHANGED <<data, calls>>
       ELSE LET d == getDataFromRequest(request)
            IN  IF ValidationError(d) # undefined
                THEN /\ response' = getErrorResponse(ValidationError(d), 400)
                     /\ pc' = "done"
                     /\ UNCHANGED <<data, calls, fromCache>>
                ELSE /\ data' = Data(d, NoRelease, NoRelease, <<>>)
                     /\ calls' = Append(calls, Call("list", ListURL(d)))
                     /\ pc' = "list"
                     /\ UNCHANGED <<response, fromCache>>
    /\ UNCHANGED <<cache, pending, request, wrote, started, served, last, parsed>>

\* The release list arrives: getLatestRelease finishes, then either getRelease
\* is called (a version was requested) or the raw file is requested
ListResponse(resp) ==
    /\ pc = "list"
    /\ LET latest == getLatestRelease(resp)
       IN  IF ~latest.ok
           THEN /\ response' = getErrorResponse(Message(latest.value), 404)
                /\ pc' = "done"
                /\ UNCHANGED <<data, calls>>
           ELSE IF Truthy(data.version)
           THEN /\ data' = [data EXCEPT !.latestRelease = latest.value]
                /\ calls' = Append(calls, Call("tag", TagURL(data)))
                /\ pc' = "tag"
                /\ UNCHANGED response
           ELSE /\ data' = [data EXCEPT !.latestRelease = latest.value,
                                        !.release = latest.value]
                /\ calls' = Append(calls, Call("file", FilePath(data')))
                /\ pc' = "file"
                /\ UNCHANGED response
    /\ UNCHANGED <<cache, pending, request, fromCache, wrote, started, served, last, parsed>>

\* The release-by-tag answer arrives: getRelease finishes
TagResponse(resp) ==
    /\ pc = "tag"
    /\ LET rel == getRelease(data, resp)
       IN  IF ~rel.ok
           THEN /\ response' = getErrorResponse(Message(rel.value), 404)
                /\ pc' = "done"
                /\ UNCHANGED <<data, calls>>
           ELSE /\ data' = [data EXCEPT !.release = rel.value]
                /\ calls' = Append(calls, Call("file", FilePath(data')))
                /\ pc' = "file"
                /\ UNCHANGED response
    /\ UNCHANGED <<cache, pending, request, fromCache, wrote, started, served, last, parsed>>

\* The response of lines 68-72
PayloadResponse(payload) ==
    [getResponse(payload, 200) EXCEPT !.cacheControl = "s=maxage=10"]

\* Mutant of FileResponse: the answer is handed to cache.put whatever it is
FileResponse_CacheAlways(resp) ==
    /\ pc = "file"
    /\ pc' = "done"
    /\ IF resp.status # 200
       THEN /\ response' = getResponse(
                    Str("Unable to fetch " \o data.type \o " file: " \o FilePath(data)), 404)
            /\ UNCHANGED data
       ELSE /\ data' = [data EXCEPT !.fileHeaders = getFileHeaders(resp.text)]
            /\ LET payload == getPayload(data')
               IN  IF ~payload.ok
                   THEN response' = ErrorStackResponse(payload.value)
                   ELSE IF data.isDownload
                   THEN response' = Redirect(payload.value.fields.download, 301)
                   ELSE response' = PayloadResponse(payload.value)
    /\ pending' = pending \cup {[key |-> CacheKey(request), response |-> response']}
    /\ wrote' = TRUE
    /\ UNCHANGED <<cache, request, calls, fromCache, started, served, last, parsed>>

\* The raw file arrives: headers are parsed, the payload is built and the
\* request is answered; a JSON answer is handed to cache.put via waitUntil
FileResponse(resp) ==
    /\ pc = "file"
    /\ pc' = "done"
    /\ IF resp.status # 200
       THEN /\ response' = getResponse(
                    Str("Unable to fetch " \o data.type \o " file: " \o FilePath(data)), 404)
            /\ UNCHANGED <<data, pending, wrote>>
       ELSE /\ data' = [data EXCEPT !.fileHeaders = getFileHeaders(resp.text)]
            /\ LET payload == getPayload(data')
               IN  IF ~payload.ok
                   THEN /\ response' = ErrorStackResponse(payload.value)
                        /\ UNCHANGED <<pending, wrote>>
                   ELSE IF data.isDownload
                   THEN /\ response' = Redirect(payload.value.fields.download, 301)
                        /\ UNCHANGED <<pending, wrote>>
                   ELSE /\ response' = PayloadResponse(payload.value)
                        /\ pending' = pending \cup
                                {[key |-> CacheKey(request),
                                  response |-> PayloadResponse(payload.value)]}
                        /\ wrote' = TRUE
    /\ UNCHANGED <<cache, request, calls, fromCache, started, served, last, parsed>>

\* The caller has its response and the request-scoped values are discarded;
\* the worker is ready for the next event
Finish ==
    /\ pc = "done"
    /\ pc' = "idle"
    /\ request' = NoURL
    /\ data' = NoData
    /\ calls' = <<>>
    /\ response' = NoResponse
    /\ fromCache' = FALSE
    /\ wrote' = FALSE
    /\ IF response.status = 200 /\ ~fromCache
       THEN /\ served' = served \cup {[url |-> request, body |-> response.body]}
            /\ last' = [u \in DOMAIN last \cup {request} |->
                            IF u = request THEN response.body ELSE last[u]]
       ELSE UNCHANGED <<served, last>>
    /\ UNCHANGED <<cache, pending, started, parsed>>

\* A cache.put promise given to event.waitUntil completes
CachePut(p) ==
    /\ p \in pending
    /\ cache' = [k \in DOMAIN cache \cup {p.key} |->
                    IF k = p.key THEN p.response ELSE cache[k]]
    /\ pending' = pending \ {p}
    /\ UNCHANGED <<pc, request, data, calls, response, fromCache, wrote,
                   started, served, last, parsed>>

\* The cache drops an entry: its lifetime is over
CacheExpire(u) ==
    /\ u \in DOMAIN cache
    /\ cache' = [k \in DOMAIN cache \ {u} |-> cache[k]]
    /\ last' = [k \in DOMAIN last \ {u} |-> last[k]]
    /\ UNCHANGED <<pending, pc, request, data, calls, response, fromCache,
                   wrote, started, served, parsed>>

Next ==
    \/ \E u \in URLs : Receive(u, MaxRequests)
    \/ CacheMatch
    \/ \E resp \in ListResponses : ListResponse(resp)
    \/ \E resp \in TagResponses(data.version) : TagResponse(resp)
    \/ \E resp \in FileResponses : FileResponse(resp)
    \/ Finish
    \/ \E p \in pending : CachePut(p)
    \/ \E u \in DOMAIN cache : CacheExpire(u)

Spec == Init /\ [][Next]_vars

----------------------------------------------------------------------------
(* Repeated requests against the cache: the same handler, driven by a few   *)
(* URLs that are requested again and again.                                 *)

CacheURLs ==
    {URL(<<"plugins", "acme", "widget">>, EmptyQuery),
     URL(<<"themes", "acme", "widget", "v2">>, EmptyQuery),
     URL(<<"plugins", "acme", "widget", "download">>, EmptyQuery),
     URL(<<"plugins", "acme">>, EmptyQuery)}

CacheListResponses ==
    {r \in ListResponses :
        r.status = 200 => r.json.kind = "array" /\ Len(r.json.items) <= 1}

CacheFileResponses ==
    {r \in FileResponses : r.status = 200 => r.text = HeaderFile}

NextCache ==
    \/ \E u \in CacheURLs : Receive(u, MaxRepeats)
    \/ CacheMatch
    \/ \E resp \in CacheListResponses : ListResponse(resp)
    \/ \E resp \in TagResponses(data.version) : TagResponse(resp)
    \/ \E resp \in CacheFileResponses : FileResponse(resp)
    \/ Finish
    \/ \E p \in pending : CachePut(p)
    \/ \E u \in DOMAIN cache : CacheExpire(u)

SpecCache == Init /\ [][NextCache]_vars

----------------------------------------------------------------------------
(* The path-based parser on its own: src/index.js 87-139 *)

absent == "<absent>"

\* A query string given by the values of its parameters (absent: not sent)
Query(slug, file, download) ==
    LET v == [slug |-> slug, file |-> file, download |-> download]
    IN  [k \in {j \in DOMAIN v : v[j] # absent} |-> v[k]]

ParseQueries ==
    {Query(s, f, d) : s \in {absent, "", "pro"},
                      f \in {absent, "", "main.php"},
                      d \in {absent, ""}}

ParseTailSegs == {"1.0", "2.0", "download"}

ParseTails == UNION {[1..k -> ParseTailSegs] : k \in 0..MaxParseTail}

\* The segments of url.pathname.split('/'): a doubled slash gives an empty one
ParsePaths ==
    LET plain == {<<>>}
                 \cup {<<e>> : e \in EntitySegs}
                 \cup {<<e, "acme">> : e \in EntitySegs}
                 \cup {<<e, "acme", "widget">> \o t : e \in EntitySegs, t \in ParseTails}
    IN  plain \cup {<<"">> \o q : q \in plain}

ParseURLs == {URL(q, r) : q \in ParsePaths, r \in ParseQueries}

InitParse ==
    /\ cache = <<>>
    /\ pending = {}
    /\ pc = "parse"
    /\ request \in ParseURLs
    /\ data = NoData
    /\ calls = <<>>
    /\ response = NoResponse
    /\ fromCache = FALSE
    /\ wrote = FALSE
    /\ started = 0
    /\ served = {}
    /\ last = <<>>
    /\ parsed = NoParsed

ParseRequest ==
    /\ pc = "parse"
    /\ pc' = "parsed"
    /\ parsed' = [done |-> TRUE, ok |-> TRUE, data |-> getDataFromRequest(request)]
    /\ UNCHANGED <<cache, pending, request, data, calls, response, fromCache,
                   wrote, started, served, last>>

NextParse == ParseRequest

SpecParse == InitParse /\ [][NextParse]_vars

----------------------------------------------------------------------------
(* The query-based parser: src/unnamed/part_001 95-117.  The basename is a  *)
(* sequence of tokens: the separators "/" and ".", and words without them.  *)

BaseTokens == {"a", "css", ".", "/"}

Basenames == UNION {[1..k -> BaseTokens] : k \in 0..MaxBasename}

RECURSIVE Split(_, _)
\* String.prototype.split(sep): the pieces between the separators
Split(toks, sep) ==
    IF \A i \in 1..Len(toks) : toks[i] # sep THEN <<toks>>
    ELSE LET i == CHOOSE j \in 1..Len(toks) :
                    toks[j] = sep /\ \A k \in 1..(j - 1) : toks[k] # sep
         IN  <<SubSeq(toks, 1, i - 1)>> \o Split(SubSeq(toks, i + 1, Len(toks)), sep)

\* String.prototype.lastIndexOf(tok), counted from 1; 0 when there is none
LastIndexOf(toks, tok) ==
    IF \A i \in 1..Len(toks) : toks[i] # tok THEN 0
    ELSE CHOOSE i \in 1..Len(toks) :
            toks[i] = tok /\ \A k \in (i + 1)..Len(toks) : toks[k] # tok

\* A query of the query-based convention: vendor and package are null when
\* the parameter is not sent, the basename is empty when it is not sent
QueryRequest(vendor, package, basename) ==
    [vendor |-> vendor, package |-> package, basename |-> basename]

QueryRequests ==
    {QueryRequest(v, k, b) : v \in {"acme"}, k \in {null, "widget"}, b \in Basenames}

getDataFromRequestQuery(q) ==
    LET basename == IF q.basename # <<>> THEN q.basename
                    ELSE <<TemplateStr(q.package), "/", TemplateStr(q.package), ".", "php">>
        pieces == Split(basename, "/")
        slug == pieces[1]
    IN  IF Len(pieces) < 2
        \* file is undefined: data.file.substring throws a TypeError
        THEN [done |-> TRUE, ok |-> FALSE,
              data |-> "TypeError: Cannot read properties of undefined (reading 'substring')"]
        ELSE LET file == pieces[2]
                 ext == SubSeq(file, LastIndexOf(file, ".") + 1, Len(file))
                 type == IF ext = <<"css">> THEN "theme" ELSE "plugin"
             IN  [done |-> TRUE, ok |-> TRUE,
                  data |-> [vendor |-> q.vendor, package |-> q.package,
                            basename |-> basename, slug |-> slug, file |-> file,
                            type |-> type, isTheme |-> type = "theme",
                            isPlugin |-> type = "plugin"]]

InitQuery ==
    /\ cache = <<>>
    /\ pending = {}
    /\ pc = "parse"
    /\ request \in QueryRequests
    /\ data = NoData
    /\ calls = <<>>
    /\ response = NoResponse
    /\ fromCache = FALSE
    /\ wrote = FALSE
    /\ started = 0
    /\ served = {}
    /\ last = <<>>
    /\ parsed = NoParsed

ParseQuery ==
    /\ pc = "parse"
    /\ pc' = "parsed"
    /\ parsed' = getDataFromRequestQuery(request)
    /\ UNCHANGED <<cache, pending, request, data, calls, response, fromCache,
                   wrote, started, served, last>>

NextQuery == ParseQuery

SpecQuery == InitQuery /\ [][NextQuery]_vars

----------------------------------------------------------------------------
(* Properties of release resolution *)

HasAsset(r) == Len(r.assets) # 0

\* The first release of a list, in list order, that has an asset
FirstViable(items) ==
    items[CHOOSE i \in 1..Len(items) :
            HasAsset(items[i]) /\ \A j \in 1..(i - 1) : ~HasAsset(items[j])]

NoReleasesMessages == {"No releases available!", "No releases have release assets!"}

LastCall == calls[Len(calls)]

\* C1: for a valid request without a version whose release list arrives with
\* status 200 and is a non-empty list, the resolved release is the first
\* release of the list that has an asset, and its tag is used for the raw-file
\* fetch; when no release of the list has an asset the request ends there
\* with a 404 error whose message is one of the "no releases" messages.
C1_LatestViableOr404 ==
    [][\A resp \in ListResponses :
        (/\ ListResponse(resp)
         /\ ~Truthy(data.version)
         /\ resp.status = 200
         /\ resp.json.kind = "array"
         /\ Len(resp.json.items) > 0)
        => IF \E i \in 1..Len(resp.json.items) : HasAsset(resp.json.items[i])
           THEN /\ pc' = "file"
                /\ data'.release = FirstViable(resp.json.items)
                /\ calls'[Len(calls')] = Call("file", FilePath(
                        [data EXCEPT !.release = FirstViable(resp.json.items)]))
           ELSE /\ pc' = "done"
                /\ response'.status = 404
                /\ response'.body.kind = "object"
                /\ Prop(response'.body.fields, "message") \in NoReleasesMessages]_vars

\* C2: for a request with a version V, the release that governs the response
\* is the release the release-by-tag lookup for V returned: its tag is used
\* for the raw-file fetch, its publication date is `updated` and its first
\* asset is `download`; and when that release has no asset the request ends
\* with status 404 and no raw-file fetch is issued.
C2_ExplicitVersionGoverns ==
    /\ [][\A resp \in TagResponses(data.version) :
            (TagResponse(resp) /\ resp.status = 200)
            => IF HasAsset(resp.json)
               THEN /\ pc' = "file"
                    /\ data'.release = resp.json
                    /\ calls'[Len(calls')] = Call("file",
                            "https://raw.githubusercontent.com/" \o data.vendor \o "/"
                                \o data.package \o "/" \o resp.json.tag_name
                                \o "/" \o data.file)
               ELSE /\ pc' = "done"
                    /\ response'.status = 404
                    /\ calls' = calls
                    /\ \A i \in 1..Len(calls') : calls'[i].endpoint # "file"]_vars
    /\ []((pc \in {"file", "done"} /\ Truthy(data.version) /\ calls # <<>>
            /\ LastCall.endpoint = "file")
          => /\ data.release.tag_name = data.version
             /\ calls[Len(calls) - 1] = Call("tag", TagURL(data))
             /\ (pc = "done" /\ response.status = 200
                    => /\ response.body.fields.download
                            = data.release.assets[1].browser_download_url
                       /\ response.body.fields.updated
                            = OrEmpty(data.release.published_at))
             /\ (pc = "done" /\ response.status = 301
                    => response.location = data.release.assets[1].browser_download_url))

\* C2 witness: a versioned request answered from a release other than the
\* latest release of the list
C2_Witness ==
    /\ pc = "done"
    /\ Truthy(data.version)
    /\ response.status = 200
    /\ data.release.tag_name = data.version
    /\ data.latestRelease.tag_name # data.version

\* C3: a release list that arrives with status 200 and is empty ends the
\* request with status 404 and the JSON body
\* {status: "error", message: "No releases available!"}.
C3_EmptyListBody ==
    [][\A resp \in ListResponses :
        (/\ ListResponse(resp)
         /\ resp.status = 200
         /\ resp.json.kind = "array"
         /\ Len(resp.json.items) = 0)
        => /\ pc' = "done"
           /\ response'.status = 404
           /\ response'.body = Obj([status |-> "error",
                                    message |-> "No releases available!"])]_vars

\* C4: a download request whose release resolution gave a release with an
\* asset (the release tagged with the requested version when a version is
\* given, otherwise the latest viable release) and whose raw-file fetch
\* answered 200 is answered with a 301 redirect whose Location is that
\* release's first asset URL, and handling it performs no cache write.
C4_DownloadRedirectsUncached ==
    /\ [][\A resp \in FileResponses :
            (/\ FileResponse(resp)
             /\ data.isDownload
             /\ resp.status = 200
             /\ HasAsset(data.release))
            => /\ response'.status = 301
               /\ response'.location = data.release.assets[1].browser_download_url
               /\ response'.body = NoBody
               /\ IF Truthy(data.version)
                  THEN data.release.tag_name = data.version
                  ELSE data.release = data.latestRelease
               /\ pending' = pending
               /\ cache' = cache
               /\ ~wrote']_vars
    /\ []((pc # "idle" /\ data.isDownload)
            => ~wrote /\ \A q \in pending : q.key # CacheKey(request))

\* C4 witness: a download request redirected to a versioned release
C4_Witness ==
    /\ pc = "done"
    /\ data.isDownload
    /\ Truthy(data.version)
    /\ response.status = 301
    /\ response.location = "https://dl/v2.zip"
    /\ pending = {}

----------------------------------------------------------------------------
(* Properties of the response cache *)

----------------------------------------------------------------------------
(* Properties of error reporting *)

\* C6: when the release-list lookup or the release-by-tag lookup answers with
\* a non-2xx status S, the response to the caller has status S.
C6_UpstreamStatusPreserved ==
    /\ [][\A resp \in ListResponses :
            (ListResponse(resp) /\ resp.status \notin 200..299)
            => pc' = "done" /\ response'.status = resp.status]_vars
    /\ [][\A resp \in TagResponses(data.version) :
            (TagResponse(resp) /\ resp.status \notin 200..299)
            => pc' = "done" /\ response'.status = resp.status]_vars

EntityTypes == {"plugin", "plugins", "theme", "themes"}

Singular(segment) == IF segment \in {"plugin", "plugins"} THEN "plugin" ELSE "theme"

\* The message a rejected path must get: the first failing field in the
\* order entity type, vendor, package
RejectionMessage(path) ==
    IF Len(path) < 1 \/ path[1] \notin EntityTypes THEN TypeMessage
    ELSE IF Len(path) < 2 THEN VendorMessage
    ELSE PackageMessage

\* C7: a request is accepted iff its first path segment is plugin, plugins,
\* theme or themes and the vendor and package segments are present; an
\* accepted request carries the singular type in its descriptor and payload;
\* a rejected request is answered 400 with the message of its first failing
\* field (three distinct messages), without outbound call or cache write.
C7_Validation ==
    /\ Cardinality({TypeMessage, VendorMessage, PackageMessage}) = 3
    /\ (pc \in {"list", "tag", "file", "done"} /\ ~fromCache)
        => IF Len(request.path) >= 3 /\ request.path[1] \in EntityTypes
           THEN /\ calls # <<>>
                /\ calls[1].endpoint = "list"
                /\ data.type = Singular(request.path[1])
                /\ response.status # 400
                /\ (pc = "done" /\ response.status = 200
                        => response.body.fields.type = Singular(request.path[1]))
           ELSE /\ pc = "done"
                /\ response.status = 400
                /\ response.body = Obj([status |-> "error",
                                        message |-> RejectionMessage(request.path)])
                /\ calls = <<>>
                /\ ~wrote
                /\ \A q \in pending : q.key # CacheKey(request)
                /\ CacheKey(request) \notin DOMAIN cache

\* C7 witness: a request with a valid type and a vendor but no package,
\* rejected with the package message
C7_Witness ==
    /\ pc = "done"
    /\ Len(request.path) = 2
    /\ request.path[1] \in EntityTypes
    /\ response.status = 400
    /\ response.body.fields.message = PackageMessage

----------------------------------------------------------------------------
(* Properties of the request parsers *)

\* The non-empty segments of the request path
Segments == SelectSeq(request.path, LAMBDA x : x # "")

\* A query parameter was sent with a value
Supplied(name) == name \in DOMAIN request.query /\ request.query[name] # ""

\* C8: a request is a download request iff `download` is the trailing path
\* segment (after the package) or a `download` query flag is sent; the
\* version is the fourth path segment exactly when that segment is present
\* and is not the `download` marker, and is absent otherwise.
C8_DownloadAndVersion ==
    pc = "parsed"
        => /\ parsed.data.isDownload
                = (\/ (Len(Segments) >= 4 /\ Segments[Len(Segments)] = "download")
                   \/ "download" \in DOMAIN request.query)
           /\ parsed.data.version
                = IF Len(Segments) >= 4 /\ Segments[4] # "download"
                  THEN Segments[4] ELSE undefined

\* C9: for a path-based request with a package, basename is slug "/" file,
\* where slug is the `slug` parameter when supplied and the package
\* otherwise, and file is the `file` parameter when supplied and otherwise
\* {package}.php for a plugin request and style.css for a theme request;
\* each override applies whether or not the other is sent.
C9_Basename ==
    (pc = "parsed" /\ Len(Segments) >= 3)
        => LET d == parsed.data
               package == Segments[3]
               slug == IF Supplied("slug") THEN request.query.slug ELSE package
               file == IF Supplied("file") THEN request.query.file
                       ELSE IF Segments[1] \in {"theme", "themes"} THEN "style.css"
                       ELSE package \o ".php"
           IN  /\ d.slug = slug
               /\ Segments[1] \in EntityTypes => d.file = file
               /\ d.basename = d.slug \o "/" \o d.file

\* C9 witness: a theme request that overrides the slug and keeps the
\* default file
C9_Witness ==
    /\ pc = "parsed"
    /\ Segments = <<"themes", "acme", "widget">>
    /\ Supplied("slug")
    /\ ~Supplied("file")
    /\ parsed.data.basename = "pro/style.css"

EndsWith(toks, suffix) ==
    /\ Len(toks) >= Len(suffix)
    /\ SubSeq(toks, Len(toks) - Len(suffix) + 1, Len(toks)) = suffix

\* The basename has an extension: a dot followed by a word that ends it
HasExtension(toks) ==
    /\ Len(toks) >= 2
    /\ toks[Len(toks) - 1] = "."
    /\ toks[Len(toks)] \notin {".", "/"}

\* C10: in the query-based convention every basename ending in .css is
\* classified as theme, every basename with another extension as plugin, and
\* an omitted basename defaults to {package}/{package}.php, a plugin.
C10_TypeFromBasename ==
    pc = "parsed"
        => /\ EndsWith(request.basename, <<".", "css">>)
                => parsed.ok /\ parsed.data.type = "theme"
           /\ (HasExtension(request.basename)
                    /\ ~EndsWith(request.basename, <<".", "css">>))
                => parsed.ok /\ parsed.data.type = "plugin"
           /\ request.basename = <<>>
                => /\ parsed.ok
                   /\ parsed.data.type = "plugin"
                   /\ parsed.data.basename
                        = <<TemplateStr(request.package), "/",
                            TemplateStr(request.package), ".", "php">>

----------------------------------------------------------------------------
(* Header extraction on its own: src/index.js 327-358.  The first line of   *)
(* the text is any line of tokens, a second line may follow.                *)

LineTokens == {"Version", "Author", ":", " ", "1.2.3"}

FirstLines == UNION {[1..k -> LineTokens] : k \in 0..MaxLineTokens}

SecondLines ==
    {<<"Version", ":", " ", "2.0">>,
     <<" ", "*", " ", "Author", ":", "\t", "Acme", " ", "Inc", " ">>,
     <<"Author URI", ":", "https://acme.test">>}

HeaderTexts ==
    {<<a>> : a \in FirstLines} \cup {<<a, b>> : a \in FirstLines, b \in SecondLines}

InitHeaders ==
    /\ cache = <<>>
    /\ pending = {}
    /\ pc = "parse"
    /\ request \in HeaderTexts
    /\ data = NoData
    /\ calls = <<>>
    /\ response = NoResponse
    /\ fromCache = FALSE
    /\ wrote = FALSE
    /\ started = 0
    /\ served = {}
    /\ last = <<>>
    /\ parsed = NoParsed

ParseHeaders ==
    /\ pc = "parse"
    /\ pc' = "parsed"
    /\ parsed' = [done |-> TRUE, ok |-> TRUE, data |-> getFileHeaders(request)]
    /\ UNCHANGED <<cache, pending, request, data, calls, response, fromCache,
                   wrote, started, served, last>>

NextHeaders == ParseHeaders

SpecHeaders == InitHeaders /\ [][NextHeaders]_vars

\* The line is `header:` followed by the rest of the line
LineOfForm(line, header) ==
    Len(line) >= 2 /\ line[1] = header /\ line[2] = ":"

\* C11: for every text and every known header H, when the text has a line of
\* the form `H:` followed by the rest of the line, the map holds for H the
\* rest of the first such line, trimmed; when it has no such line, H is
\* absent from the map, so a line of another header or with text before
\* `H:` never supplies H's value.
C11_HeaderExtraction ==
    pc = "parsed"
        => \A h \in HeaderNames :
            IF \E l \in 1..Len(request) : LineOfForm(request[l], h)
            THEN LET l == CHOOSE k \in 1..Len(request) :
                            /\ LineOfForm(request[k], h)
                            /\ \A j \in 1..(k - 1) : ~LineOfForm(request[j], h)
                 IN  /\ h \in DOMAIN parsed.data
                     /\ parsed.data[h]
                            = Join(Trim(SubSeq(request[l], 3, Len(request[l]))))
            ELSE h \notin DOMAIN parsed.data

----------------------------------------------------------------------------
(* Properties of the response bodies *)

\* C12: every response the handler computes for a failure (validation, not
\* found, missing asset, unfetchable file, upstream failure) has a JSON body
\* that is an object {status: "error", message: <string>} with the message
\* present; none has a bare string or an object without a message as body.
C12_ErrorBodyShape ==
    (pc = "done" /\ ~fromCache /\ response.status \notin {200, 301})
        => /\ response.contentType = "application/json"
           /\ response.body.kind = "object"
           /\ DOMAIN response.body.fields = {"status", "message"}
           /\ response.body.fields.status = "error"
           /\ response.body.fields.message \notin {undefined, null}

\* C13: in every successful JSON response, version.latest is the tag of the
\* latest viable release (the first release of the upstream list that has an
\* asset) whether or not a version was requested, and version.current is the
\* Version header of the file fetched at the resolved release's tag; without
\* a requested version the resolved release is the latest viable release.
C13_VersionLatestAndCurrent ==
    [][/\ \A resp \in ListResponses :
            (ListResponse(resp) /\ pc' \in {"tag", "file"})
            => /\ resp.json.kind = "array"
               /\ \E i \in 1..Len(resp.json.items) : HasAsset(resp.json.items[i])
               /\ data'.latestRelease = FirstViable(resp.json.items)
               /\ (~Truthy(data.version) => data'.release = data'.latestRelease)
       /\ \A resp \in FileResponses :
            (FileResponse(resp) /\ response'.status = 200)
            => /\ HasAsset(data.latestRelease)
               /\ Prop(response'.body.fields, "version_latest")
                    = data.latestRelease.tag_name
               /\ Prop(response'.body.fields, "version_current")
                    = Prop(getFileHeaders(resp.text), "Version")
               /\ LastCall = Call("file", FilePath(data))
               /\ (~Truthy(data.version) => data.release = data.latestRelease)]_vars

\* The header each payload field is read from, for an entity type
FieldHeader(type) ==
    [name |-> IF type = "theme" THEN "Theme Name" ELSE "Plugin Name",
     description |-> "Description",
     author_name |-> "Author",
     author_url |-> "Author URI",
     requires_wp |-> "Requires at least",
     requires_php |-> "Requires PHP",
     tested_wp |-> "Tested up to",
     url |-> IF type = "theme" THEN "Theme URI" ELSE "Plugin URI"]

\* C14: missing headers never fail a request and never leave a field out: for
\* any file text fetched with status 200 the payload contains name,
\* description, author.name, author.url, requires.wp, requires.php, tested.wp
\* and url, each equal to its header's value when the header is present and
\* to the empty string when it is absent.
C14_HeaderFieldsDefaultEmpty ==
    [][\A resp \in FileResponses :
        (/\ FileResponse(resp)
         /\ resp.status = 200
         /\ HasAsset(data.release)
         /\ ~data.isDownload)
        => /\ response'.status = 200
           /\ response'.body.kind = "object"
           /\ LET h == getFileHeaders(resp.text)
                  from == FieldHeader(data.type)
              IN  \A f \in DOMAIN from :
                    /\ f \in DOMAIN response'.body.fields
                    /\ response'.body.fields[f]
                        = IF from[f] \in DOMAIN h THEN h[from[f]] ELSE ""]_vars

\* C15: every payload whose entity type is plugin has a `basename` field
\* equal to the descriptor's basename, and no payload whose entity type is
\* theme has a `basename` field.
C15_BasenameOnlyForPlugins ==
    (pc = "done" /\ response.status = 200)
        => LET fields == response.body.fields
               d == getDataFromRequest(request)
           IN  /\ fields.type = d.type
               /\ d.type \in {"plugin", "theme"}
               /\ d.type = "plugin"
                    => /\ "basename" \in DOMAIN fields
                       /\ fields.basename = d.basename
               /\ d.type = "theme" => "basename" \notin DOMAIN fields

\* C15 witness: a plugin payload that carries the default plugin basename
C15_Witness ==
    /\ pc = "done"
    /\ response.status = 200
    /\ response.body.fields.type = "plugin"
    /\ response.body.fields.basename = "widget/widget.php"
    /\ data.basename = "widget/widget.php"

----------------------------------------------------------------------------
(* Properties of the request as a whole *)

InFlight == {"match", "list", "tag", "file"}

\* C16: a request is answered with exactly one response: none exists while
\* the cache lookup or an outbound call is awaited, the step that ends the
\* handling sets one, and it stays as it is until the request is over; an
\* exception that handleRequest does not turn into a structured error is
\* answered with status 500 and the diagnostic text as body, so no request
\* ends without a response and no exception escapes the listener.
C16_ExactlyOneResponse ==
    /\ []((pc \in InFlight \cup {"idle"}) => response = NoResponse)
    /\ [](pc = "done"
            => /\ response # NoResponse
               /\ response.status \in {200, 301, 400, 403, 404, 500}
               /\ (response.status = 500
                    => /\ response.body.kind = "text"
                       /\ response.body.text # ""
                       /\ ~wrote))
    /\ [][pc = "done" /\ pc' = "done" => response' = response]_vars
    /\ [][pc = "done" /\ pc' # "done" => pc' = "idle"]_vars
    /\ [][\A resp \in FileResponses :
            (/\ FileResponse(resp)
             /\ resp.status = 200
             /\ ~getPayload(data').ok)
            => /\ pc' = "done"
               /\ response'.status = 500
               /\ response'.body = [kind |-> "text", text |-> getPayload(data').value]]_vars

\* C16 witness: the TypeError of getPayload answered by the listener's catch
C16_Witness ==
    /\ pc = "done"
    /\ response.status = 500
    /\ response.body.kind = "text"
    /\ ~HasAsset(data.release)
    /\ LastCall.endpoint = "file"

Endpoints == [i \in DOMAIN calls |-> calls[i].endpoint]

\* The raw-file URL for a release, written out
RawURL(d, release) ==
    "https://raw.githubusercontent.com/" \o d.vendor \o "/" \o d.package
        \o "/" \o release.tag_name \o "/" \o d.file

\* C17: within one request the outbound calls are sequential and never
\* retried: one call at most is awaited at any time, each endpoint is called
\* at most once, in the order release list, release by tag (only with a
\* requested version), raw file; and the raw-file fetch is issued only in the
\* step in which release resolution returned a release, with that release's
\* tag in its path.
C17_SequentialCalls ==
    /\ [](/\ Endpoints \in {<<>>, <<"list">>, <<"list", "tag">>, <<"list", "file">>,
                            <<"list", "tag", "file">>}
          /\ (pc \in {"idle", "match"} => calls = <<>>)
          /\ (pc = "list" => Endpoints = <<"list">>)
          /\ (pc = "tag" => Endpoints = <<"list", "tag">> /\ Truthy(data.version))
          /\ (pc = "file" => LastCall.endpoint = "file")
          /\ (pc = "file" => (Len(calls) = 3 <=> Truthy(data.version)))
          /\ (calls # <<>> => calls[1] = Call("list", ListURL(data)))
          /\ (pc \in {"file", "done"} /\ calls # <<>> /\ LastCall.endpoint = "file"
                => LastCall.url = RawURL(data, data.release)))
    /\ [][calls' # calls
            => \/ calls' = <<>> /\ pc' \in {"idle", "match"}
               \/ /\ Len(calls') = Len(calls) + 1
                  /\ SubSeq(calls', 1, Len(calls)) = calls
                  /\ pc \in {"match", "list", "tag"}
                  /\ pc' = calls'[Len(calls')].endpoint]_vars
    /\ [][pc = "list" /\ pc' # "list"
            => IF pc' = "done" THEN calls' = calls
               ELSE /\ data.latestRelease = NoRelease /\ data.release = NoRelease
                    /\ Truthy(data'.latestRelease.tag_name)
                    /\ IF Truthy(data.version)
                       THEN /\ pc' = "tag"
                            /\ data'.release = NoRelease
                            /\ calls' = Append(calls, Call("tag", TagURL(data)))
                       ELSE /\ pc' = "file"
                            /\ data'.release = data'.latestRelease
                            /\ calls' = Append(calls,
                                    Call("file", RawURL(data, data'.release)))]_vars
    /\ [][pc = "tag" => \A resp \in TagResponses(data.version) :
            TagResponse(resp)
            => IF getRelease(data, resp).ok
               THEN /\ data'.release = getRelease(data, resp).value
                    /\ calls' = Append(calls,
                            Call("file", RawURL(data, getRelease(data, resp).value)))
               ELSE calls' = calls /\ pc' = "done"]_vars
    /\ [][pc = "file" => \A resp \in FileResponses :
            FileResponse(resp) => calls' = calls /\ pc' = "done"]_vars

\* C17 witness: the three calls of a versioned request, the raw file at the
\* requested tag while the latest release has another tag
C17_Witness ==
    /\ pc = "file"
    /\ Endpoints = <<"list", "tag", "file">>
    /\ data.release.tag_name = "v2"
    /\ data.latestRelease.tag_name = "v1"
    /\ LastCall.url = "https://raw.githubusercontent.com/acme/widget/v2/widget.php"

\* A response that is a computed payload document
IsPayloadResponse(r) ==
    /\ r.status = 200
    /\ r.contentType = "application/json"
    /\ r.body.kind = "object"
    /\ {"type", "slug", "download", "version_latest"} \subseteq DOMAIN r.body.fields

\* The stored response was computed for a non-download request for key
ComputedFor(key, r) ==
    /\ ~getDataFromRequest(key).isDownload
    /\ r.body.fields.type = getDataFromRequest(key).type
    /\ r.body.fields.slug = getDataFromRequest(key).slug
    /\ \/ [url |-> key, body |-> r.body] \in served
       \/ pc = "done" /\ ~fromCache /\ request = key /\ response = r

\* C18: a failed step ends the request: the failing step issues no further
\* outbound call, the answer is not a payload document and nothing is handed
\* to the cache; so at any time every cache entry, and every write on its
\* way, is a status 200 JSON payload response that was computed for a
\* non-download request whose URL is the entry's key.
C18_FailuresNeverCached ==
    /\ [][(pc \in InFlight /\ pc' = "done" /\ response'.status \notin {200, 301})
            => /\ calls' = calls
               /\ pending' = pending
               /\ cache' = cache
               /\ ~wrote'
               /\ ~IsPayloadResponse(response')
               /\ (response'.body.kind = "object"
                    => DOMAIN response'.body.fields \subseteq {"status", "message"})]_vars
    /\ []((pc = "done" /\ response.status \notin {200, 301})
            => ~wrote /\ ~fromCache)
    /\ [][pc = "done" /\ response.status \notin {200, 301}
            => /\ calls' \in {calls, <<>>}
               /\ pending' \subseteq pending
               /\ pc' \in {"done", "idle"}]_vars
    /\ [](\A k \in DOMAIN cache :
            IsPayloadResponse(cache[k]) /\ ComputedFor(k, cache[k]))
    /\ [](\A p \in pending :
            IsPayloadResponse(p.response) /\ ComputedFor(p.key, p.response))

\* C18 witness: a request fails at the raw-file fetch while the cache holds
\* the answer an earlier request for another URL computed
C18_Witness ==
    /\ pc = "done"
    /\ response.status = 404
    /\ response.body.kind = "string"
    /\ request = URL(<<"themes", "acme", "widget", "v2">>, EmptyQuery)
    /\ DOMAIN cache = {URL(<<"plugins", "acme", "widget">>, EmptyQuery)}
    /\ pending = {}

====
